---- MODULE Spec2Model ----
(***************************************************************************)
(* Configuration reconciliation of the cloud-torrent daemon:               *)
(*   engine/config.go   Config.Validate, Config.SyncViper,                 *)
(*                      Config.NormlizeConfigDir, Config.UploadLimiter,    *)
(*                      Config.DownloadLimiter, rateLimiter                *)
(*   server/server.go   Server.viperConf, Server.Run (startup sequence)    *)
(*                                                                         *)
(* Go strings that the code inspects character by character (directories   *)
(* and rate strings) are sequences of one-character strings; strings that  *)
(* are only compared are TLA+ strings.  Numbers that may exceed 31 bits    *)
(* are little-endian sequences of 16-bit limbs.                            *)
(***************************************************************************)
EXTENDS Integers, Sequences, FiniteSets, TLC

VARIABLES
    c,          \* the receiver *Config of the Config methods / Run's local c
    nc,         \* the candidate configuration handed to Validate / SyncViper
    pre,        \* value of c when the last operation was entered
    ret,        \* what the last operation returned, tagged with its name
    viperKV,    \* the viper singleton's in-memory settings (key -> value)
    file,       \* settings held by the configuration file on disk
    ops,        \* store operations issued by the last SyncViper, in order
    rstr,       \* argument of rateLimiter
    intBits,    \* width of Go's int on the build (32 or 64)
    wd,         \* the process working directory (os.Getwd)
    normalized, \* a NormlizeConfigDir call on c has succeeded
    pc,         \* position of Server.Run
    trace,      \* startup steps Server.Run has performed, in order
    srv         \* the Server: options and the state Run installs

vars == <<c, nc, pre, ret, viperKV, file, ops, rstr, intBits, wd, normalized,
          pc, trace, srv>>

(***************************************************************************)
(* Bounds of the model                                                     *)
(***************************************************************************)
\* at most this many fields differ between the old and the new configuration
MaxDiff == 3

\* at most this many white-space characters on each side of a rate string
MaxPad == 1

\* longest directory string drawn from PathChars
MaxPathLen == 3

\* 16-bit limbs of a number: room for a uint64 times the largest unit
NLimbs == 8

(***************************************************************************)
(* Action bits (engine/config.go, const block)                             *)
(***************************************************************************)
ForbidRuntimeChange == 1
NeedEngineReConfig == 2
NeedRestartWatch == 4
NeedUpdateTracker == 8

HasBit(status, flag) == (status \div flag) % 2 = 1

\* status |= flag on a uint8, flag a single bit
BitOr(status, flag) == IF HasBit(status, flag) THEN status ELSE (status + flag) % 256

(***************************************************************************)
(* type Config struct                                                      *)
(***************************************************************************)
\* the fields in declaration order, as reflect's Field(i) enumerates them
FieldOrder ==
    << "AutoStart", "EngineDebug", "MuteEngineLog", "ObfsPreferred",
       "ObfsRequirePreferred", "DisableTrackers", "DisableIPv6",
       "DownloadDirectory", "WatchDirectory", "EnableUpload", "EnableSeeding",
       "IncomingPort", "DoneCmd", "SeedRatio", "UploadRate", "DownloadRate",
       "TrackerListURL", "AlwaysAddTrackers", "ProxyURL", "RssURL" >>

Fields == { FieldOrder[i] : i \in 1..Len(FieldOrder) }

\* the field list of the loop in Validate
HotFields ==
    << "IncomingPort", "DownloadDirectory", "EngineDebug", "EnableUpload",
       "EnableSeeding", "UploadRate", "DownloadRate", "ObfsPreferred",
       "ObfsRequirePreferred", "DisableTrackers", "DisableIPv6", "ProxyURL" >>

trackerList == "https://raw.githubusercontent.com/ngosang/trackerslist/master/trackers_best.txt"

\* two values of each field's Go type
FieldValues(f) ==
    CASE f \in {"DownloadDirectory", "WatchDirectory"} ->
            << <<"/", "a">>, <<"/", "b">> >>
      [] f \in {"UploadRate", "DownloadRate"} ->
            << <<>>, <<"l", "o", "w">> >>
      [] f = "IncomingPort" -> << 50007, 50008 >>
      [] f = "SeedRatio" -> << 0, 1 >>
      [] f = "DoneCmd" -> << "", "notify.sh" >>
      [] f = "TrackerListURL" -> << trackerList, "" >>
      [] f = "ProxyURL" -> << "", "socks5://127.0.0.1:1080" >>
      [] f = "RssURL" -> << "", "https://example.org/rss" >>
      [] OTHER -> << FALSE, TRUE >>

Alt(f, v) == IF v = FieldValues(f)[1] THEN FieldValues(f)[2] ELSE FieldValues(f)[1]

\* the zero value of Config (c := &engine.Config{})
ZeroConfig ==
    [ f \in Fields |->
        CASE f \in {"DownloadDirectory", "WatchDirectory", "UploadRate", "DownloadRate"} -> <<>>
          [] f \in {"IncomingPort", "SeedRatio"} -> 0
          [] f \in {"DoneCmd", "TrackerListURL", "ProxyURL", "RssURL"} -> ""
          [] OTHER -> FALSE ]

BaseConfigs == { [ f \in Fields |-> FieldValues(f)[k] ] : k \in 1..2 }

RECURSIVE SubsetsUpTo(_, _)
SubsetsUpTo(S, n) ==
    IF n = 0 THEN { {} }
    ELSE LET P == SubsetsUpTo(S, n - 1)
         IN  P \cup { s \cup {f} : s \in P, f \in S }

\* the configurations that differ from old in at most MaxDiff fields
Candidates(old) ==
    { [ f \in Fields |-> IF f \in D THEN Alt(f, old[f]) ELSE old[f] ] :
        D \in SubsetsUpTo(Fields, MaxDiff) }

(***************************************************************************)
(* Config.Validate(nc): uint8                                              *)
(***************************************************************************)
\* a loop that leaves after the first field whatever it finds there
RECURSIVE ValidateLoopFirstOnly(_, _, _, _, _)
ValidateLoopFirstOnly(old, new, fields, i, status) ==
    IF i > Len(fields) THEN status
    ELSE IF old[fields[i]] # new[fields[i]]
         THEN BitOr(status, NeedEngineReConfig)
         ELSE status

\* for _, field := range fields { if differs { status |= NeedEngineReConfig; break } }
RECURSIVE ValidateLoop(_, _, _, _, _)
ValidateLoop(old, new, fields, i, status) ==
    IF i > Len(fields) THEN status
    ELSE IF old[fields[i]] # new[fields[i]]
         THEN BitOr(status, NeedEngineReConfig)
         ELSE ValidateLoop(old, new, fields, i + 1, status)

\* Validate without the TrackerListURL test
ValidateNoTracker(old, new, fields) ==
    LET s0 == 0
        s1 == IF old.DoneCmd # new.DoneCmd THEN BitOr(s0, ForbidRuntimeChange) ELSE s0
        s2 == IF old.WatchDirectory # new.WatchDirectory THEN BitOr(s1, NeedRestartWatch) ELSE s1
    IN  ValidateLoop(old, new, fields, 1, s2)

\* Validate with the field list of the loop as a parameter
ValidateWith(old, new, fields) ==
    LET s0 == 0
        s1 == IF old.DoneCmd # new.DoneCmd THEN BitOr(s0, ForbidRuntimeChange) ELSE s0
        s2 == IF old.WatchDirectory # new.WatchDirectory THEN BitOr(s1, NeedRestartWatch) ELSE s1
        s3 == IF old.TrackerListURL # new.TrackerListURL THEN BitOr(s2, NeedUpdateTracker) ELSE s2
    IN  ValidateLoop(old, new, fields, 1, s3)

Validate(old, new) == ValidateWith(old, new, HotFields)

(***************************************************************************)
(* Config.SyncViper(nc): error                                             *)
(***************************************************************************)
\* a loop that stages every field, changed or not
RECURSIVE SyncSetsAll(_, _, _)
SyncSetsAll(old, new, i) ==
    IF i > Len(FieldOrder) THEN <<>>
    ELSE <<[op |-> "set", key |-> FieldOrder[i], val |-> new[FieldOrder[i]]]>>
            \o SyncSetsAll(old, new, i + 1)

\* the viper.Set calls of the loop, from field i on
RECURSIVE SyncSets(_, _, _)
SyncSets(old, new, i) ==
    IF i > Len(FieldOrder) THEN <<>>
    ELSE LET name == FieldOrder[i]
             rest == SyncSets(old, new, i + 1)
         IN  IF old[name] # new[name]
             THEN <<[op |-> "set", key |-> name, val |-> new[name]]>> \o rest
             ELSE rest

\* the store after the staged sets
RECURSIVE ApplySets(_, _, _)
ApplySets(kv, sets, i) ==
    IF i > Len(sets) THEN kv
    ELSE ApplySets([kv EXCEPT ![sets[i].key] = sets[i].val], sets, i + 1)

\* viper.WriteConfigAs(viper.ConfigFileUsed()) and whether it succeeded
WriteOp(ok) == [op |-> "write", key |-> "", val |-> ok]

\* writeOk: whether viper.WriteConfigAs(viper.ConfigFileUsed()) succeeds
SyncViper(writeOk) ==
    /\ LET sets == SyncSets(c, nc, 1)
           kv   == ApplySets(viperKV, sets, 1)
       IN  /\ ops' = sets \o <<WriteOp(writeOk)>>
           /\ viperKV' = kv
           /\ file' = IF writeOk THEN kv ELSE file
           /\ ret' = [op |-> "SyncViper", err |-> ~writeOk]
    /\ pre' = c
    /\ UNCHANGED <<c, nc, rstr, intBits, wd, normalized, pc, trace, srv>>

CallValidate ==
    /\ ret' = [op |-> "Validate", status |-> Validate(c, nc)]
    /\ pre' = c
    /\ UNCHANGED <<c, nc, viperKV, file, ops, rstr, intBits, wd, normalized,
                   pc, trace, srv>>

NoServer == [none |-> TRUE]

InitConfig ==
    /\ c \in BaseConfigs
    /\ nc \in Candidates(c)
    /\ pre = c
    /\ ret = [op |-> "init"]
    /\ viperKV = c
    /\ file = c
    /\ ops = <<>>
    /\ rstr = <<>>
    /\ intBits = 64
    /\ wd = <<"/">>
    /\ normalized = FALSE
    /\ pc = "idle"
    /\ trace = <<>>
    /\ srv = NoServer

NextConfig ==
    \/ CallValidate
    \/ \E writeOk \in BOOLEAN : SyncViper(writeOk)

SpecConfig == InitConfig /\ [][NextConfig]_vars

(***************************************************************************)
(* Characters and strings (strings.ToLower, strings.TrimSpace)             *)
(***************************************************************************)
UpperChars == <<"A", "B", "C", "D", "E", "F", "G", "H", "I", "J", "K", "L", "M",
                "N", "O", "P", "Q", "R", "S", "T", "U", "V", "W", "X", "Y", "Z">>

LowerChars == <<"a", "b", "c", "d", "e", "f", "g", "h", "i", "j", "k", "l", "m",
                "n", "o", "p", "q", "r", "s", "t", "u", "v", "w", "x", "y", "z">>

DigitChars == <<"0", "1", "2", "3", "4", "5", "6", "7", "8", "9">>

WhiteSpace == {" ", "\t", "\n", "\r"}

IndexIn(s, ch) == IF \E i \in 1..Len(s) : s[i] = ch
                  THEN CHOOSE i \in 1..Len(s) : s[i] = ch
                  ELSE 0

ToLowerCh(ch) == IF IndexIn(UpperChars, ch) > 0 THEN LowerChars[IndexIn(UpperChars, ch)] ELSE ch

ToUpperCh(ch) == IF IndexIn(LowerChars, ch) > 0 THEN UpperChars[IndexIn(LowerChars, ch)] ELSE ch

ToLower(s) == [ i \in 1..Len(s) |-> ToLowerCh(s[i]) ]

IsDigit(ch) == IndexIn(DigitChars, ch) > 0

DigitVal(ch) == IndexIn(DigitChars, ch) - 1

RECURSIVE TrimLeft(_)
TrimLeft(s) == IF s # <<>> /\ Head(s) \in WhiteSpace THEN TrimLeft(Tail(s)) ELSE s

RECURSIVE TrimRight(_)
TrimRight(s) ==
    IF s # <<>> /\ s[Len(s)] \in WhiteSpace THEN TrimRight(SubSeq(s, 1, Len(s) - 1)) ELSE s

TrimSpace(s) == TrimRight(TrimLeft(s))

(***************************************************************************)
(* Unsigned numbers wider than TLC's integers: NLimbs limbs of 16 bits,    *)
(* least significant first                                                 *)
(***************************************************************************)
Limb == 2^16

RECURSIVE MulAddFrom(_, _, _, _)
MulAddFrom(n, m, carry, i) ==
    IF i > NLimbs THEN <<>>
    ELSE LET t == n[i] * m + carry
         IN  <<t % Limb>> \o MulAddFrom(n, m, t \div Limb, i + 1)

\* n * m + a for small m and a (no limb is lost: n stays below 2^112)
MulAdd(n, m, a) == MulAddFrom(n, m, a, 1)

RECURSIVE FromIntFrom(_, _)
FromIntFrom(k, i) ==
    IF i > NLimbs THEN <<>> ELSE <<k % Limb>> \o FromIntFrom(k \div Limb, i + 1)

\* the limbs of a number below 2^31
FromInt(k) == FromIntFrom(k, 1)

\* n > 2^(16 * limbs) - 1
Exceeds(n, limbs) == \E i \in (limbs + 1)..NLimbs : n[i] # 0

\* n > 2147483647
ExceedsMaxInt32(n) == Exceeds(n, 2) \/ n[2] >= 32768

\* n mod 2^(16 * limbs)
Truncate(n, limbs) == [ i \in 1..NLimbs |-> IF i <= limbs THEN n[i] ELSE 0 ]

RECURSIVE TimesKB(_, _)
TimesKB(n, k) == IF k = 0 THEN n ELSE TimesKB(MulAdd(n, 1024, 0), k - 1)

(***************************************************************************)
(* datasize.ByteSize.UnmarshalText, as rateLimiter calls it                *)
(***************************************************************************)
\* the power of 1024 a unit stands for, -1 for an unknown unit
UnitPower(unit) ==
    CASE
         unit \in { <<>>, <<"b">>, <<"b", "y", "t", "e">> } -> 0
      [] unit \in { <<"k">>, <<"k", "b">>, <<"k", "i", "l", "o">>, <<"k", "i", "l", "o", "b", "y", "t", "e">>, <<"k", "i", "l", "o", "b", "y", "t", "e", "s">> } -> 1
      [] unit \in { <<"m">>, <<"m", "b">>, <<"m", "e", "g", "a">>, <<"m", "e", "g", "a", "b", "y", "t", "e">>, <<"m", "e", "g", "a", "b", "y", "t", "e", "s">> } -> 2
      [] unit \in { <<"g">>, <<"g", "b">>, <<"g", "i", "g", "a">>, <<"g", "i", "g", "a", "b", "y", "t", "e">>, <<"g", "i", "g", "a", "b", "y", "t", "e", "s">> } -> 3
      [] unit \in { <<"t">>, <<"t", "b">>, <<"t", "e", "r", "a">>, <<"t", "e", "r", "a", "b", "y", "t", "e">>, <<"t", "e", "r", "a", "b", "y", "t", "e", "s">> } -> 4
      [] unit \in { <<"p">>, <<"p", "b">>, <<"p", "e", "t", "a">>, <<"p", "e", "t", "a", "b", "y", "t", "e">>, <<"p", "e", "t", "a", "b", "y", "t", "e", "s">> } -> 5
      [] unit \in { <<"e">>, <<"e", "b">>, <<"e", "x", "a">>, <<"e", "x", "a", "b", "y", "t", "e">>, <<"e", "x", "a", "b", "y", "t", "e", "s">> } -> 6
      [] OTHER -> -1

\* the digits loop: <<val, index of the first byte that is no digit>> or
\* <<"overflow">> when val passes the largest uint64
RECURSIVE ParseDigits(_, _, _)
ParseDigits(t, i, val) ==
    IF i > Len(t) \/ ~IsDigit(t[i]) THEN <<val, i>>
    ELSE IF Exceeds(MulAdd(val, 10, 0), 4) THEN <<"overflow">>
    ELSE IF Exceeds(MulAdd(val, 10, DigitVal(t[i])), 4) THEN <<"overflow">>
    ELSE ParseDigits(t, i + 1, MulAdd(val, 10, DigitVal(t[i])))

\* [err |-> TRUE] or [err |-> FALSE, v |-> the byte size]
UnmarshalText(t) ==
    IF t # <<>> /\ ~IsDigit(t[1]) THEN [err |-> TRUE]
    ELSE LET d == ParseDigits(t, 1, FromInt(0))
         IN  IF Len(d) = 1 THEN [err |-> TRUE]
             ELSE LET unit == ToLower(TrimSpace(SubSeq(t, d[2], Len(t))))
                      k    == UnitPower(unit)
                  IN  IF k < 0 THEN [err |-> TRUE]
                      ELSE IF Exceeds(TimesKB(d[1], k), 4) THEN [err |-> TRUE]
                      ELSE [err |-> FALSE, v |-> TimesKB(d[1], k)]

(***************************************************************************)
(* func rateLimiter(rstr string): a rate.Limiter or an error               *)
(***************************************************************************)
\* a Go int: sign and magnitude
GoInt(neg, mag) == [neg |-> neg, mag |-> mag]

\* 2^(16 * limbs) - n, for 0 < n < 2^(16 * limbs)
RECURSIVE NegateFrom(_, _, _, _)
NegateFrom(n, limbs, borrow, i) ==
    IF i > NLimbs THEN <<>>
    ELSE IF i > limbs THEN <<0>> \o NegateFrom(n, limbs, borrow, i + 1)
    ELSE LET t == 0 - n[i] - borrow
         IN  IF t < 0 THEN <<t + Limb>> \o NegateFrom(n, limbs, 1, i + 1)
                      ELSE <<t>> \o NegateFrom(n, limbs, 0, i + 1)

\* rateSize * 3 in an int of the given width, rateSize >= 0 (two's complement wrap)
IntTimes3(rateSize, bits) ==
    LET limbs == bits \div 16
        p     == Truncate(MulAdd(rateSize, 3, 0), limbs)
    IN  IF p[limbs] >= 32768 THEN GoInt(TRUE, NegateFrom(p, limbs, 0, 1)) ELSE GoInt(FALSE, p)

\* rate.Inf
Inf == [inf |-> TRUE, n |-> FromInt(0)]

\* rate.Limit(rateSize)
Limit(rateSize) == [inf |-> FALSE, n |-> rateSize]

\* rate.NewLimiter(r, b)
NewLimiter(r, b) == [limit |-> r, burst |-> b]

\* rate.NewLimiter(rate.Inf, 0)
Unlimited == NewLimiter(Inf, GoInt(FALSE, FromInt(0)))

s_low == <<"l", "o", "w">>
s_medium == <<"m", "e", "d", "i", "u", "m">>
s_high == <<"h", "i", "g", "h">>
s_unlimited == <<"u", "n", "l", "i", "m", "i", "t", "e", "d">>
s_0 == <<"0">>
s_empty == <<>>

\* rateLimiter that compares the trimmed input without lower-casing it
rateLimiterCaseSensitive(str, bits) ==
    LET s == TrimSpace(str)
    IN  CASE s = s_low -> [err |-> FALSE, l |-> NewLimiter(Limit(FromInt(50000)), IntTimes3(FromInt(50000), bits))]
          [] s = s_medium -> [err |-> FALSE, l |-> NewLimiter(Limit(FromInt(500000)), IntTimes3(FromInt(500000), bits))]
          [] s = s_high -> [err |-> FALSE, l |-> NewLimiter(Limit(FromInt(1500000)), IntTimes3(FromInt(1500000), bits))]
          [] s \in {s_unlimited, s_0, s_empty} -> [err |-> FALSE, l |-> Unlimited]
          [] OTHER ->
                LET u == UnmarshalText(s)
                IN  IF u.err THEN [err |-> TRUE]
                    ELSE IF ExceedsMaxInt32(u.v) THEN [err |-> TRUE]
                    ELSE [err |-> FALSE, l |-> NewLimiter(Limit(u.v), IntTimes3(u.v, bits))]

\* bits: the width of int on the build
rateLimiter(str, bits) ==
    LET s == ToLower(TrimSpace(str))
    IN  CASE s = s_low -> [err |-> FALSE, l |-> NewLimiter(Limit(FromInt(50000)), IntTimes3(FromInt(50000), bits))]
          [] s = s_medium -> [err |-> FALSE, l |-> NewLimiter(Limit(FromInt(500000)), IntTimes3(FromInt(500000), bits))]
          [] s = s_high -> [err |-> FALSE, l |-> NewLimiter(Limit(FromInt(1500000)), IntTimes3(FromInt(1500000), bits))]
          [] s \in {s_unlimited, s_0, s_empty} -> [err |-> FALSE, l |-> Unlimited]
          [] OTHER ->
                LET u == UnmarshalText(s)
                IN  IF u.err THEN [err |-> TRUE]
                    ELSE IF ExceedsMaxInt32(u.v) THEN [err |-> TRUE]
                    ELSE [err |-> FALSE, l |-> NewLimiter(Limit(u.v), IntTimes3(u.v, bits))]

\* the literal tokens of the switch
Tokens == {s_low, s_medium, s_high, s_unlimited, s_0, s_empty}

\* every mix of upper and lower case of a token
CaseVariants(tok) ==
    { [ i \in 1..Len(tok) |-> IF i \in U THEN ToUpperCh(tok[i]) ELSE tok[i] ] :
        U \in SUBSET (1..Len(tok)) }

PadChars == {" ", "\t"}

RECURSIVE PadsUpTo(_)
PadsUpTo(n) ==
    IF n = 0 THEN { <<>> }
    ELSE PadsUpTo(n - 1) \cup { <<ch>> \o p : ch \in PadChars, p \in PadsUpTo(n - 1) }

\* byte-size expressions and malformed text
SizeInputs ==
    { <<"3", "0", "0", "0", "0", "0", "0", "0", "0", "0">>,
      <<"2", "1", "4", "7", "4", "8", "3", "6", "4", "7">>,
      <<"2", "1", "4", "7", "4", "8", "3", "6", "4", "8">>,
      <<"7", "1", "5", "8", "2", "7", "8", "8", "2">>,
      <<"7", "1", "5", "8", "2", "7", "8", "8", "3">>,
      <<"1", "g", "b">>,
      <<"1", "G", "B">>,
      <<"2", "g", "b">>,
      <<"2", "0", "4", "7", "m", "b">>,
      <<"1", "0", "M", "B">>,
      <<"2", "K", "B">>,
      <<"1", " ", "k", "b">>,
      <<"1", "0", "0", "k">>,
      <<"0", "0">>,
      <<"0", "b">>,
      <<"a", "b", "c">>,
      <<"1", ".", "5", "m", "b">>,
      <<"1", "2", "x">>,
      <<"-", "5">>,
      <<"k", "b">>,
      <<"1", "k", "i", "b">>,
      <<"1", "8", "4", "4", "6", "7", "4", "4", "0", "7", "3", "7", "0", "9", "5", "5", "1", "6", "1", "5">>,
      <<"1", "8", "4", "4", "6", "7", "4", "4", "0", "7", "3", "7", "0", "9", "5", "5", "1", "6", "1", "6">>,
      <<"9", "9", "9", "9", "9", "9", "9", "9", "9", "9", "9", "9", "9", "9", "9", "9", "9", "9", "9", "9">>,
      <<"1", "6", "e", "b">>,
      <<"1", "5", "e", "b">>,
      <<"1", "M", "b">> }

RateInputs ==
    { l \o v \o r : l \in PadsUpTo(MaxPad), r \in PadsUpTo(MaxPad),
                    v \in SizeInputs \cup UNION { CaseVariants(tok) : tok \in Tokens } }

IntWidths == {32, 64}

CallRateLimiter ==
    /\ ret.op = "init"
    /\ ret' = [op |-> "rateLimiter", r |-> rateLimiter(rstr, intBits)]
    /\ UNCHANGED <<c, nc, pre, viperKV, file, ops, rstr, intBits, wd, normalized,
                   pc, trace, srv>>

InitRateLimiter ==
    /\ rstr \in RateInputs
    /\ intBits \in IntWidths
    /\ c = ZeroConfig
    /\ nc = ZeroConfig
    /\ pre = ZeroConfig
    /\ ret = [op |-> "init"]
    /\ viperKV = ZeroConfig
    /\ file = ZeroConfig
    /\ ops = <<>>
    /\ wd = <<"/">>
    /\ normalized = FALSE
    /\ pc = "idle"
    /\ trace = <<>>
    /\ srv = NoServer

NextRateLimiter == CallRateLimiter

SpecRateLimiter == InitRateLimiter /\ [][NextRateLimiter]_vars

(***************************************************************************)
(* Config.UploadLimiter, Config.DownloadLimiter                            *)
(***************************************************************************)
\* the methods whose rate string had to be reset so far
FailedSoFar == IF ret.recovered THEN ret.failedEarlier \cup {ret.op} ELSE ret.failedEarlier

\* UploadLimiter that keeps the rejected rate string
UploadLimiterNoReset ==
    LET r == rateLimiter(c.UploadRate, intBits)
    IN  /\ c' = c
        /\ ret' = [op |-> "UploadLimiter", recovered |-> r.err,
                   l |-> IF r.err THEN Unlimited ELSE r.l,
                   failedEarlier |-> FailedSoFar]
        /\ pre' = c
        /\ UNCHANGED <<nc, viperKV, file, ops, rstr, intBits, wd, normalized, pc, trace, srv>>

UploadLimiter ==
    LET r == rateLimiter(c.UploadRate, intBits)
    IN  /\ c' = IF r.err THEN [c EXCEPT !.UploadRate = <<>>] ELSE c
        /\ ret' = [op |-> "UploadLimiter", recovered |-> r.err,
                   l |-> IF r.err THEN Unlimited ELSE r.l,
                   failedEarlier |-> FailedSoFar]
        /\ pre' = c
        /\ UNCHANGED <<nc, viperKV, file, ops, rstr, intBits, wd, normalized, pc, trace, srv>>

DownloadLimiter ==
    LET r == rateLimiter(c.DownloadRate, intBits)
    IN  /\ c' = IF r.err THEN [c EXCEPT !.DownloadRate = <<>>] ELSE c
        /\ ret' = [op |-> "DownloadLimiter", recovered |-> r.err,
                   l |-> IF r.err THEN Unlimited ELSE r.l,
                   failedEarlier |-> FailedSoFar]
        /\ pre' = c
        /\ UNCHANGED <<nc, viperKV, file, ops, rstr, intBits, wd, normalized, pc, trace, srv>>

\* rate strings an operator may have stored
StoredRates ==
    { <<>>,
      <<"l", "o", "w">>,
      <<" ", "H", "I", "G", "H", " ">>,
      <<"1", "0", "M", "B">>,
      <<"1", "g", "b">>,
      <<"3", "0", "0", "0", "0", "0", "0", "0", "0", "0">>,
      <<"2", "1", "4", "7", "4", "8", "3", "6", "4", "8">>,
      <<"a", "b", "c">>,
      <<"1", "2", "x">> }

InitLimiter ==
    /\ \E up \in StoredRates, down \in StoredRates :
          c = [ZeroConfig EXCEPT !.UploadRate = up, !.DownloadRate = down]
    /\ intBits \in IntWidths
    /\ nc = ZeroConfig
    /\ pre = c
    /\ ret = [op |-> "init", recovered |-> FALSE, failedEarlier |-> {}]
    /\ viperKV = ZeroConfig
    /\ file = ZeroConfig
    /\ ops = <<>>
    /\ rstr = <<>>
    /\ wd = <<"/">>
    /\ normalized = FALSE
    /\ pc = "idle"
    /\ trace = <<>>
    /\ srv = NoServer

NextLimiter ==
    \/ UploadLimiter
    \/ DownloadLimiter

SpecLimiter == InitLimiter /\ [][NextLimiter]_vars

(***************************************************************************)
(* Claims about rateLimiter (SpecRateLimiter) and the limiter methods      *)
(* (SpecLimiter)                                                           *)
(***************************************************************************)
\* C3: a limiter returned without error has an infinite rate and burst 0, or
\* a finite rate of at most 2147483647 and a burst of exactly 3 times the rate.
C3_LimiterInvariant ==
    (ret.op = "rateLimiter" /\ ~ret.r.err) =>
        LET l == ret.r.l
        IN  IF l.limit.inf
            THEN l.burst = GoInt(FALSE, FromInt(0))
            ELSE /\ ~ExceedsMaxInt32(l.limit.n)
                 /\ l.burst = GoInt(FALSE, MulAdd(l.limit.n, 3, 0))

\* str is tok in some mix of cases between runs of white space
IsSpelling(str, tok) ==
    \E i \in 1..(Len(str) + 1) :
        /\ \A k \in 1..(i - 1) : str[k] \in WhiteSpace
        /\ i + Len(tok) - 1 <= Len(str)
        /\ \A k \in 1..Len(tok) : str[i + k - 1] \in {tok[k], ToUpperCh(tok[k])}
        /\ \A k \in (i + Len(tok))..Len(str) : str[k] \in WhiteSpace

Finite(rateSize, burst) ==
    [err |-> FALSE,
     l |-> NewLimiter(Limit(FromInt(rateSize)), GoInt(FALSE, FromInt(burst)))]

\* C4: whatever the case and the surrounding white space, "low" gives rate
\* 50000 / burst 150000, "medium" 500000 / 1500000, "high" 1500000 / 4500000,
\* and "unlimited", "0" and "" the infinite rate with burst 0, without error.
C4_LiteralTokens ==
    ret.op = "rateLimiter" =>
        /\ IsSpelling(rstr, s_low) => ret.r = Finite(50000, 150000)
        /\ IsSpelling(rstr, s_medium) => ret.r = Finite(500000, 1500000)
        /\ IsSpelling(rstr, s_high) => ret.r = Finite(1500000, 4500000)
        /\ (\E tok \in {s_unlimited, s_0, s_empty} : IsSpelling(rstr, tok))
              => ret.r = [err |-> FALSE, l |-> Unlimited]

\* " HiGh<tab>" parsed
C4_Witness ==
    /\ ret.op = "rateLimiter"
    /\ rstr = <<" ", "H", "i", "G", "h", "\t">>
    /\ ret.r = Finite(1500000, 4500000)

LimiterField(m) == IF m = "UploadLimiter" THEN "UploadRate" ELSE "DownloadRate"

\* C5: when rateLimiter fails on the stored rate string, UploadLimiter /
\* DownloadLimiter returns the unlimited limiter and resets that string (and
\* nothing else) to empty; a later call of the same method finds the empty
\* string, succeeds and leaves the configuration as it is.
C5_FailSoft ==
    ret.op \in {"UploadLimiter", "DownloadLimiter"} =>
        LET f == LimiterField(ret.op)
        IN  /\ rateLimiter(pre[f], intBits).err =>
                  /\ ret.recovered
                  /\ ret.l = Unlimited
                  /\ c = [pre EXCEPT ![f] = <<>>]
            /\ pre[f] = <<"3", "0", "0", "0", "0", "0", "0", "0", "0", "0">> =>
                  /\ ret.l = Unlimited
                  /\ c[f] = <<>>
            /\ ret.op \in ret.failedEarlier =>
                  /\ ~ret.recovered
                  /\ ret.l = Unlimited
                  /\ c = pre
                  /\ c[f] = <<>>

\* UploadLimiter called again after it had to reset the rate string
C5_Witness ==
    /\ ret.op = "UploadLimiter"
    /\ "UploadLimiter" \in ret.failedEarlier
    /\ ~ret.recovered
    /\ c.UploadRate = <<>>

(***************************************************************************)
(* path/filepath on Unix: IsAbs, Clean, Join, Abs                          *)
(***************************************************************************)
IsAbs(path) == path # <<>> /\ path[1] = "/"

\* the elements of path between its separators (empty ones included)
RECURSIVE SplitFrom(_, _, _)
SplitFrom(path, i, cur) ==
    IF i > Len(path) THEN <<cur>>
    ELSE IF path[i] = "/" THEN <<cur>> \o SplitFrom(path, i + 1, <<>>)
    ELSE SplitFrom(path, i + 1, Append(cur, path[i]))

Split(path) == SplitFrom(path, 1, <<>>)

DotDot == <<".", ".">>

\* Clean's pass over the elements: out holds the elements kept so far
RECURSIVE CleanElems(_, _, _, _)
CleanElems(elems, i, out, rooted) ==
    IF i > Len(elems) THEN out
    ELSE LET e == elems[i]
         IN  CASE e = <<>> \/ e = <<".">> -> CleanElems(elems, i + 1, out, rooted)
               [] e = DotDot ->
                    IF out # <<>> /\ out[Len(out)] # DotDot
                    THEN CleanElems(elems, i + 1, SubSeq(out, 1, Len(out) - 1), rooted)
                    ELSE IF rooted
                    THEN CleanElems(elems, i + 1, out, rooted)
                    ELSE CleanElems(elems, i + 1, Append(out, e), rooted)
               [] OTHER -> CleanElems(elems, i + 1, Append(out, e), rooted)

RECURSIVE JoinElems(_, _)
JoinElems(elems, i) ==
    IF i > Len(elems) THEN <<>>
    ELSE IF i = Len(elems) THEN elems[i]
    ELSE elems[i] \o <<"/">> \o JoinElems(elems, i + 1)

\* filepath.Clean
Clean(path) ==
    IF path = <<>> THEN <<".">>
    ELSE LET rooted == path[1] = "/"
             out    == CleanElems(Split(path), 1, <<>>, rooted)
         IN  IF rooted THEN <<"/">> \o JoinElems(out, 1)
             ELSE IF out = <<>> THEN <<".">>
             ELSE JoinElems(out, 1)

\* filepath.Join(dir, path), both non-empty
Join(dir, path) == Clean(dir \o <<"/">> \o path)

\* filepath.Abs that returns an absolute path as it is
AbsNoClean(path, cwd, getwdOk) ==
    IF IsAbs(path) THEN [err |-> FALSE, p |-> path]
    ELSE IF ~getwdOk THEN [err |-> TRUE, p |-> <<>>]
    ELSE [err |-> FALSE, p |-> Join(cwd, path)]

\* filepath.Abs; getwdOk: whether os.Getwd succeeds, cwd: what it returns
Abs(path, cwd, getwdOk) ==
    IF IsAbs(path) THEN [err |-> FALSE, p |-> Clean(path)]
    ELSE IF ~getwdOk THEN [err |-> TRUE, p |-> <<>>]
    ELSE [err |-> FALSE, p |-> Join(cwd, path)]

(***************************************************************************)
(* Config.NormlizeConfigDir(): (bool, error)                               *)
(***************************************************************************)
\* the configuration left behind and the two return values; g1, g2: whether
\* os.Getwd succeeds in the first and in the second filepath.Abs
NormlizeConfigDirOf(cfg, cwd, g1, g2) ==
    LET dl == Abs(cfg.DownloadDirectory, cwd, g1)
    IN  IF cfg.DownloadDirectory # <<>> /\ dl.err
        THEN [c |-> cfg, changed |-> FALSE, err |-> TRUE]
        ELSE
        LET ch1 == cfg.DownloadDirectory # <<>> /\ cfg.DownloadDirectory # dl.p
            c1  == IF ch1 THEN [cfg EXCEPT !.DownloadDirectory = dl.p] ELSE cfg
            w   == Abs(c1.WatchDirectory, cwd, g2)
        IN  IF c1.WatchDirectory # <<>> /\ w.err
            THEN [c |-> c1, changed |-> FALSE, err |-> TRUE]
            ELSE
            LET ch2 == c1.WatchDirectory # <<>> /\ c1.WatchDirectory # w.p
                c2  == IF ch2 THEN [c1 EXCEPT !.WatchDirectory = w.p] ELSE c1
            IN  [c |-> c2, changed |-> ch1 \/ ch2, err |-> FALSE]

NormlizeConfigDir(g1, g2) ==
    LET r == NormlizeConfigDirOf(c, wd, g1, g2)
    IN  /\ c' = r.c
        /\ ret' = [op |-> "NormlizeConfigDir", changed |-> r.changed, err |-> r.err,
                   again |-> normalized]
        /\ normalized' = (normalized \/ ~r.err)
        /\ pre' = c
        /\ UNCHANGED <<nc, viperKV, file, ops, rstr, intBits, wd, pc, trace, srv>>

PathChars == {"/", ".", "a"}

RECURSIVE PathsUpTo(_)
PathsUpTo(n) ==
    IF n = 0 THEN { <<>> }
    ELSE PathsUpTo(n - 1) \cup { <<ch>> \o q : ch \in PathChars, q \in PathsUpTo(n - 1) }

\* the defaults of viperConf
dflDownloadDirectory == <<".", "/", "d", "o", "w", "n", "l", "o", "a", "d", "s">>

dflWatchDirectory == <<".", "/", "t", "o", "r", "r", "e", "n", "t", "s">>

DirInputs == PathsUpTo(MaxPathLen) \cup {dflDownloadDirectory, dflWatchDirectory}

WorkDirs == { <<"/">>, <<"/", "w">> }

InitNorm ==
    /\ \E dl \in DirInputs, w \in DirInputs :
          c = [ZeroConfig EXCEPT !.DownloadDirectory = dl, !.WatchDirectory = w]
    /\ wd \in WorkDirs
    /\ nc = ZeroConfig
    /\ pre = c
    /\ ret = [op |-> "init"]
    /\ viperKV = ZeroConfig
    /\ file = ZeroConfig
    /\ ops = <<>>
    /\ rstr = <<>>
    /\ intBits = 64
    /\ normalized = FALSE
    /\ pc = "idle"
    /\ trace = <<>>
    /\ srv = NoServer

NextNorm == \E g1 \in BOOLEAN, g2 \in BOOLEAN : NormlizeConfigDir(g1, g2)

SpecNorm == InitNorm /\ [][NextNorm]_vars

(***************************************************************************)
(* Claims about NormlizeConfigDir, checked under SpecNorm                  *)
(***************************************************************************)
\* absolute, and no empty, "." or ".." element and no trailing separator
IsCanonicalAbs(path) ==
    /\ IsAbs(path)
    /\ path = <<"/">> \/
         \A e \in { Split(Tail(path))[i] : i \in 1..Len(Split(Tail(path))) } :
             e \notin { <<>>, <<".">>, DotDot }

DirFields == {"DownloadDirectory", "WatchDirectory"}

\* C6: on success an empty directory stays empty and a non-empty one becomes
\* its absolute cleaned form, changed is true iff some directory changed
\* textually, and a call after a successful call returns changed = false
\* without error and leaves both directories the same.
C6_NormalizeIdempotent ==
    ret.op = "NormlizeConfigDir" =>
        /\ ~ret.err =>
              /\ \A f \in DirFields :
                    IF pre[f] = <<>> THEN c[f] = <<>>
                    ELSE /\ IsCanonicalAbs(c[f])
                         /\ c[f] = IF IsAbs(pre[f]) THEN Clean(pre[f]) ELSE Join(wd, pre[f])
              /\ ret.changed <=> (\E f \in DirFields : c[f] # pre[f])
              /\ \A f \in Fields \ DirFields : c[f] = pre[f]
        /\ ret.again => (~ret.err /\ ~ret.changed /\ c = pre)

\* the second call on the default directories, resolved under /w by the first
C6_Witness ==
    /\ ret.op = "NormlizeConfigDir"
    /\ ret.again /\ ~ret.changed /\ ~ret.err
    /\ wd = <<"/", "w">>
    /\ c.DownloadDirectory = <<"/", "w", "/">> \o SubSeq(dflDownloadDirectory, 3, Len(dflDownloadDirectory))
    /\ c.WatchDirectory = <<"/", "w", "/">> \o SubSeq(dflWatchDirectory, 3, Len(dflWatchDirectory))

\* C10: when NormlizeConfigDir returns an error, both directories hold their
\* values from before the call and changed is false.
C10_ErrorModifiesNothing ==
    (ret.op = "NormlizeConfigDir" /\ ret.err) =>
        /\ ~ret.changed
        /\ c.DownloadDirectory = pre.DownloadDirectory
        /\ c.WatchDirectory = pre.WatchDirectory

(***************************************************************************)
(* Server.viperConf and Server.Run: the startup sequence                   *)
(***************************************************************************)
\* the settings viper holds when no file overrides them (viper.SetDefault);
\* ProxyURL defaults to the server's --proxyurl option, empty here
DefaultConfig ==
    [ZeroConfig EXCEPT !.DownloadDirectory = dflDownloadDirectory,
                       !.WatchDirectory = dflWatchDirectory,
                       !.EnableUpload = TRUE,
                       !.AutoStart = TRUE,
                       !.ObfsPreferred = TRUE,
                       !.IncomingPort = 50007,
                       !.TrackerListURL = trackerList]

Event(step, ok, dir) == [step |-> step, ok |-> ok, dir |-> dir]

\* Run returns err
RunReturn(err) ==
    /\ pc' = "returned"
    /\ ret' = [op |-> "Run", err |-> err]

\* the key/cert check and the set-up of stats, maps, handlers and scraper
RunStart ==
    /\ pc = "start"
    /\ IF srv.tlsHalf
       THEN RunReturn("tls")
       ELSE pc' = "load" /\ ret' = ret
    /\ UNCHANGED <<c, nc, pre, viperKV, file, ops, rstr, intBits, wd, normalized,
                   trace, srv>>

\* s.engine = engine.New(s); c, err := s.viperConf()
\* readOk: whether viper.ReadInConfig can read the file that exists
RunLoad(readOk) ==
    /\ pc = "load"
    /\ IF srv.fileExists /\ ~readOk
       THEN /\ RunReturn("load")
            /\ trace' = Append(trace, Event("load", FALSE, <<>>))
            /\ UNCHANGED <<c, pre, viperKV>>
       ELSE /\ viperKV' = IF srv.fileExists THEN file ELSE DefaultConfig
            /\ c' = viperKV'
            /\ pre' = viperKV'
            /\ trace' = Append(trace, Event("load", TRUE, <<>>))
            /\ pc' = "normalize"
            /\ ret' = ret
    /\ UNCHANGED <<nc, file, ops, rstr, intBits, wd, normalized, srv>>

\* dirChanged, err := c.NormlizeConfigDir(); if dirChanged { viper.Set(...) x 2 }
RunNormalize(g1, g2) ==
    /\ pc = "normalize"
    /\ LET r == NormlizeConfigDirOf(c, wd, g1, g2)
       IN  /\ c' = r.c
           /\ trace' = Append(trace, Event("normalize", ~r.err, <<>>))
           /\ IF r.err
              THEN /\ RunReturn("normalize")
                   /\ UNCHANGED <<viperKV, srv>>
              ELSE /\ srv' = [srv EXCEPT !.dirChanged = r.changed]
                   /\ viperKV' = IF r.changed
                                 THEN [viperKV EXCEPT
                                         !.DownloadDirectory = r.c.DownloadDirectory,
                                         !.WatchDirectory = r.c.WatchDirectory]
                                 ELSE viperKV
                   /\ pc' = "disk"
                   /\ ret' = ret
    /\ UNCHANGED <<nc, pre, file, ops, rstr, intBits, wd, normalized>>

\* the disk check whose failure does not stop Run
RunDiskStatIgnored(spaceOk) ==
    /\ pc = "disk"
    /\ trace' = Append(trace, Event("diskcheck", spaceOk, c.DownloadDirectory))
    /\ pc' = "configure"
    /\ UNCHANGED <<c, nc, pre, ret, viperKV, file, ops, rstr, intBits, wd, normalized, srv>>

\* if err := detectDiskStat(c.DownloadDirectory); err != nil { return err }
RunDiskStat(spaceOk) ==
    /\ pc = "disk"
    /\ trace' = Append(trace, Event("diskcheck", spaceOk, c.DownloadDirectory))
    /\ IF spaceOk
       THEN pc' = "configure" /\ ret' = ret
       ELSE RunReturn("disk")
    /\ UNCHANGED <<c, nc, pre, viperKV, file, ops, rstr, intBits, wd, normalized, srv>>

\* s.state.Config = *c; s.engine.Configure(s.state.Config)
RunConfigure(engineOk) ==
    /\ pc = "configure"
    /\ srv' = [srv EXCEPT !.installed = TRUE, !.Config = c, !.engineConfigured = engineOk]
    /\ trace' = trace \o << Event("install", TRUE, <<>>), Event("configure", engineOk, <<>>) >>
    /\ IF engineOk
       THEN pc' = "persist" /\ ret' = ret
       ELSE RunReturn("configure")
    /\ UNCHANGED <<c, nc, pre, viperKV, file, ops, rstr, intBits, wd, normalized>>

\* the ConvYAML exit, and the write of a missing or re-normalized config file
RunPersist(writeOk) ==
    /\ pc = "persist"
    /\ IF srv.ConvYAML
       THEN /\ trace' = Append(trace, Event("write", writeOk, <<>>))
            /\ RunReturn(IF writeOk THEN "converted" ELSE "write")
            /\ UNCHANGED <<file, srv>>
       ELSE IF ~srv.fileExists \/ srv.dirChanged
       THEN /\ trace' = Append(trace, Event("write", writeOk, <<>>))
            /\ IF writeOk
               THEN /\ file' = viperKV
                    /\ srv' = [srv EXCEPT !.fileExists = TRUE]
                    /\ pc' = "serve"
                    /\ ret' = ret
               ELSE /\ RunReturn("write")
                    /\ UNCHANGED <<file, srv>>
       ELSE /\ pc' = "serve"
            /\ UNCHANGED <<trace, file, srv, ret>>
    /\ UNCHANGED <<c, nc, pre, viperKV, ops, rstr, intBits, wd, normalized>>

\* backgroundRoutines, torrentWatcher, the RestAPI listener and ListenAndServe
RunServe ==
    /\ pc = "serve"
    /\ srv' = [srv EXCEPT !.listeners =
                  IF srv.RestAPI THEN {"RestAPI", "main"} ELSE {"main"}]
    /\ trace' = Append(trace, Event("listen", TRUE, <<>>))
    /\ pc' = "serving"
    /\ UNCHANGED <<c, nc, pre, ret, viperKV, file, ops, rstr, intBits, wd, normalized>>

\* directories a configuration file may hold
StoredDirs ==
    { <<>>, dflDownloadDirectory, dflWatchDirectory, <<"/", "a">>, <<"/", "a", "/">>,
      <<"a", "/", ".", ".">> }

InitRun ==
    /\ pc = "start"
    /\ trace = <<>>
    /\ \E tlsHalf \in BOOLEAN, exists \in BOOLEAN, conv \in BOOLEAN, rest \in BOOLEAN :
          /\ srv = [tlsHalf |-> tlsHalf, fileExists |-> exists, ConvYAML |-> conv,
                    RestAPI |-> rest, dirChanged |-> FALSE, installed |-> FALSE,
                    Config |-> ZeroConfig, engineConfigured |-> FALSE, listeners |-> {}]
          /\ IF exists
             THEN \E dl \in StoredDirs, w \in StoredDirs :
                     file = [DefaultConfig EXCEPT !.DownloadDirectory = dl,
                                                  !.WatchDirectory = w]
             ELSE file = ZeroConfig
    /\ wd \in WorkDirs
    /\ c = ZeroConfig
    /\ nc = ZeroConfig
    /\ pre = ZeroConfig
    /\ ret = [op |-> "init"]
    /\ viperKV = ZeroConfig
    /\ ops = <<>>
    /\ rstr = <<>>
    /\ intBits = 64
    /\ normalized = FALSE

NextRun ==
    \/ RunStart
    \/ \E readOk \in BOOLEAN : RunLoad(readOk)
    \/ \E g1 \in BOOLEAN, g2 \in BOOLEAN : RunNormalize(g1, g2)
    \/ \E spaceOk \in BOOLEAN : RunDiskStat(spaceOk)
    \/ \E engineOk \in BOOLEAN : RunConfigure(engineOk)
    \/ \E writeOk \in BOOLEAN : RunPersist(writeOk)
    \/ RunServe

SpecRun == InitRun /\ [][NextRun]_vars

(***************************************************************************)
(* Claim about Server.Run, checked under SpecRun                           *)
(***************************************************************************)
StepOrder == << "load", "normalize", "diskcheck", "install", "configure", "write", "listen" >>

Rank(step) == CHOOSE i \in 1..Len(StepOrder) : StepOrder[i] = step

Steps == { trace[i].step : i \in 1..Len(trace) }

\* C9: Run loads the configuration, normalizes the directories, checks the
\* disk space, installs the active configuration and configures the engine,
\* and starts serving, in this order; the disk check runs exactly once, on
\* the normalized download directory, before the engine is configured; when
\* loading, normalization or the disk check fails, Run returns that error
\* with no active configuration installed, no engine configured and no
\* listener started.
C9_StartupOrder ==
    /\ \A i \in 1..Len(trace) : \A j \in (i + 1)..Len(trace) :
          Rank(trace[i].step) < Rank(trace[j].step)
    /\ "normalize" \in Steps => "load" \in Steps
    /\ "diskcheck" \in Steps => "normalize" \in Steps
    /\ "install" \in Steps => "diskcheck" \in Steps
    /\ "configure" \in Steps => "install" \in Steps
    /\ "listen" \in Steps => "configure" \in Steps
    /\ srv.installed <=> "install" \in Steps
    /\ srv.engineConfigured => "configure" \in Steps
    /\ srv.listeners # {} <=> "listen" \in Steps
    /\ \A i \in 1..Len(trace) :
          trace[i].step = "diskcheck" =>
              /\ trace[i].dir = c.DownloadDirectory
              /\ IF pre.DownloadDirectory = <<>> THEN trace[i].dir = <<>>
                 ELSE /\ IsCanonicalAbs(trace[i].dir)
                      /\ trace[i].dir = Abs(pre.DownloadDirectory, wd, TRUE).p
    /\ \A i \in 1..Len(trace) :
          (trace[i].step \in {"load", "normalize", "diskcheck"} /\ ~trace[i].ok) =>
              /\ i = Len(trace)
              /\ pc = "returned"
              /\ ret = [op |-> "Run", err |-> IF trace[i].step = "diskcheck"
                                              THEN "disk" ELSE trace[i].step]
              /\ ~srv.installed
              /\ ~srv.engineConfigured
              /\ srv.listeners = {}

\* a start that serves, after a default directory was resolved under /w
C9_Witness ==
    /\ pc = "serving"
    /\ srv.listeners = {"RestAPI", "main"}
    /\ srv.installed /\ srv.engineConfigured
    /\ [ i \in 1..Len(trace) |-> trace[i].step ] = StepOrder
    /\ trace[3].dir = <<"/", "w", "/">> \o SubSeq(dflDownloadDirectory, 3, Len(dflDownloadDirectory))

(***************************************************************************)
(* Claims about Validate and SyncViper, checked under SpecConfig           *)
(***************************************************************************)
HotFieldSet == { HotFields[i] : i \in 1..Len(HotFields) }

ClassifiedFields == {"DoneCmd", "WatchDirectory", "TrackerListURL"} \cup HotFieldSet

Differing(old, new) == { f \in Fields : old[f] # new[f] }

Reverse(s) == [ i \in 1..Len(s) |-> s[Len(s) + 1 - i] ]

Rotate(s, k) == [ i \in 1..Len(s) |-> s[((i + k - 1) % Len(s)) + 1] ]

\* other orders of the field list: every rotation, and each of them reversed
FieldListOrders ==
    { Rotate(HotFields, k) : k \in 0..(Len(HotFields) - 1) }
        \cup { Reverse(Rotate(HotFields, k)) : k \in 0..(Len(HotFields) - 1) }

UnionOfTests(old, new) ==
    (IF old.DoneCmd # new.DoneCmd THEN ForbidRuntimeChange ELSE 0)
    + (IF old.WatchDirectory # new.WatchDirectory THEN NeedRestartWatch ELSE 0)
    + (IF old.TrackerListURL # new.TrackerListURL THEN NeedUpdateTracker ELSE 0)
    + (IF \E f \in HotFieldSet : old[f] # new[f] THEN NeedEngineReConfig ELSE 0)

\* C1: Validate returns exactly the union of the four independent tests
\* (DoneCmd, WatchDirectory, TrackerListURL, any of the twelve hot fields),
\* and the loop that stops at the first differing field yields that same
\* value for every order of the field list.
C1_ValidateIsUnion ==
    ret.op = "Validate" =>
        /\ ret.status = UnionOfTests(c, nc)
        /\ \A order \in FieldListOrders :
              ValidateWith(c, nc, order) = UnionOfTests(c, nc)

\* watch directory and two hot fields after the first of the list changed
C1_Witness ==
    /\ ret.op = "Validate"
    /\ Differing(c, nc) = {"WatchDirectory", "DisableIPv6", "ProxyURL"}
    /\ ret.status = NeedRestartWatch + NeedEngineReConfig

\* C2: Validate returns 0 exactly when old and new agree on every classified
\* field; Validate(c, c) = 0, and a change confined to the unclassified
\* fields yields 0.
C2_EmptyIffClassifiedEqual ==
    /\ Validate(c, c) = 0
    /\ Validate(nc, nc) = 0
    /\ ret.op = "Validate" =>
          (ret.status = 0 <=> \A f \in ClassifiedFields : c[f] = nc[f])

\* only unclassified fields changed, and the result is empty
C2_Witness ==
    /\ ret.op = "Validate"
    /\ Differing(c, nc) = {"AutoStart", "SeedRatio", "RssURL"}
    /\ ret.status = 0

SetsFor(f) == { i \in 1..Len(ops) : ops[i].op = "set" /\ ops[i].key = f }

Writes == { i \in 1..Len(ops) : ops[i].op = "write" }

\* C7: SyncViper issues exactly one set(field, new value) per differing field
\* and none for an equal field, then exactly one durable write after all the
\* sets (also when nothing differs), whose error it returns; the example
\* old = {WatchDirectory "/a", DownloadRate ""}, new = {"/b", "low"} stages
\* exactly two keys.
C7_SyncStagesDiffThenWrites ==
    ret.op = "SyncViper" =>
        /\ \A f \in Fields :
              IF c[f] # nc[f]
              THEN /\ Cardinality(SetsFor(f)) = 1
                   /\ \A i \in SetsFor(f) : ops[i].val = nc[f]
              ELSE SetsFor(f) = {}
        /\ Writes = {Len(ops)}
        /\ ret.err = ~ops[Len(ops)].val
        /\ (/\ Differing(c, nc) = {"WatchDirectory", "DownloadRate"}
            /\ c.WatchDirectory = <<"/", "a">> /\ nc.WatchDirectory = <<"/", "b">>
            /\ c.DownloadRate = <<>> /\ nc.DownloadRate = <<"l", "o", "w">>)
           => /\ Len(ops) = 3
              /\ {ops[1].key, ops[2].key} = {"WatchDirectory", "DownloadRate"}

\* the example of the specification, synced
C7_Witness ==
    /\ ret.op = "SyncViper"
    /\ Differing(c, nc) = {"WatchDirectory", "DownloadRate"}
    /\ c.WatchDirectory = <<"/", "a">> /\ nc.WatchDirectory = <<"/", "b">>
    /\ c.DownloadRate = <<>> /\ nc.DownloadRate = <<"l", "o", "w">>
    /\ Len(ops) = 3

\* C8: when the durable write of SyncViper fails, the receiver is unchanged
\* and the in-memory state is not ahead of what is durably recorded.
C8_FailedSyncLeavesNothingAhead ==
    (ret.op = "SyncViper" /\ ret.err) =>
        /\ c = pre
        /\ \A f \in Fields : viperKV[f] = file[f]

====
